---- MODULE Spec2Model ----
(***************************************************************************)
(* pageindex-rs: the markdown parser (src/src/parser.rs), the document     *)
(* tree (src/src/tree.rs) and the traversal queries (src/src/traversal.rs).*)
(*                                                                         *)
(* Strings are sequences of one-character strings, so that trim, split,    *)
(* join, repeat and integer formatting are computed, not assumed.  An      *)
(* Option is a sequence of length 0 (None) or 1 (Some).                    *)
(***************************************************************************)
EXTENDS Integers, Sequences, FiniteSets

VARIABLES
    markdown,        \* the input text, as the sequence markdown.lines() yields
    pc,              \* "scan", "build", "done", "panic"
    line_no,         \* number of lines the scanning loop has consumed
    blocks,          \* Vec<(usize, String, String)>
    doc_title,
    current_depth,
    current_title,
    current_body,    \* Vec<&str>
    started,
    node_stack,      \* Vec<Node> of build_tree
    depth_counters,  \* vec![0usize; 10], indexed 0..9
    block_no,        \* number of blocks the build loop has consumed
    created,         \* node ids in the order build_tree created them
    tree,            \* the DocumentTree returned (None before "done")
    res              \* the last query and its result

vars == <<markdown, pc, line_no, blocks, doc_title, current_depth, current_title,
          current_body, started, node_stack, depth_counters, block_no, created,
          tree, res>>

-----------------------------------------------------------------------------
(* Bounds of the model *)

MaxLines == 3
MaxHashes == 3

(* vec![0usize; 10] *)
CounterLen == 10

-----------------------------------------------------------------------------
(* String primitives *)

None == <<>>
Some(x) == <<x>>

Str(s) == <<s>>

IsWhitespace(c) == c \in {" ", "\n"}

RECURSIVE TrimStart(_)
TrimStart(s) ==
    IF s # <<>> /\ IsWhitespace(Head(s)) THEN TrimStart(Tail(s)) ELSE s

RECURSIVE TrimEnd(_)
TrimEnd(s) ==
    IF s # <<>> /\ IsWhitespace(s[Len(s)])
    THEN TrimEnd(SubSeq(s, 1, Len(s) - 1))
    ELSE s

Trim(s) == TrimEnd(TrimStart(s))

RECURSIVE Repeat(_, _)
Repeat(s, n) == IF n = 0 THEN <<>> ELSE s \o Repeat(s, n - 1)

RECURSIVE Join(_, _)
Join(parts, sep) ==
    IF parts = <<>> THEN <<>>
    ELSE IF Len(parts) = 1 THEN parts[1]
    ELSE parts[1] \o sep \o Join(Tail(parts), sep)

\* str::split(sep) for a one-character separator: never empty, "" gives [""]
RECURSIVE SplitFrom(_, _, _)
SplitFrom(s, sep, cur) ==
    IF s = <<>> THEN <<cur>>
    ELSE IF Head(s) = sep THEN <<cur>> \o SplitFrom(Tail(s), sep, <<>>)
    ELSE SplitFrom(Tail(s), sep, Append(cur, Head(s)))

Split(s, sep) == SplitFrom(s, sep, <<>>)

Digit(n) == <<"0", "1", "2", "3", "4", "5", "6", "7", "8", "9">>[n + 1]

\* usize::to_string
RECURSIVE to_string(_)
to_string(n) ==
    IF n < 10 THEN <<Digit(n)>> ELSE to_string(n \div 10) \o <<Digit(n % 10)>>

\* .filter(|s| !s.is_empty())
RECURSIVE NonEmpty(_)
NonEmpty(parts) ==
    IF parts = <<>> THEN <<>>
    ELSE (IF Head(parts) # <<>> THEN <<Head(parts)>> ELSE <<>>) \o NonEmpty(Tail(parts))

RECURSIVE CountPrefix(_, _)
CountPrefix(s, c) ==
    IF s # <<>> /\ Head(s) = c THEN 1 + CountPrefix(Tail(s), c) ELSE 0

-----------------------------------------------------------------------------
(* The inputs *)

DocId == <<"d">>
Titles == {<<"a">>, <<"b">>}

HeadingLine(d, t) == Repeat(<<"#">>, d) \o <<" ">> \o t

\* Heading lines of 1..MaxHashes markers, one with as many markers as the
\* counter vector is long, and two lines that are no headings: plain text
\* and a marker followed by nothing but whitespace.
Lines ==
    {HeadingLine(d, t) : d \in 1..MaxHashes, t \in Titles}
    \cup {HeadingLine(CounterLen, <<"a">>)}
    \cup {<<"x">>, <<"#", " ">>}

Inputs == UNION {[1..n -> Lines] : n \in 0..MaxLines}

-----------------------------------------------------------------------------
(* tree.rs *)

Node_new(node_id, title, depth, text) ==
    [node_id |-> node_id, title |-> title, depth |-> depth, text |-> text,
     summary |-> None, children |-> <<>>]

DocumentTree_new(doc_id, title, root) ==
    [doc_id |-> doc_id, title |-> title, description |-> None, root |-> root]

RECURSIVE find(_, _)
RECURSIVE find_in(_, _, _)
find(node, node_id) ==
    IF node.node_id = node_id THEN Some(node)
    ELSE find_in(node.children, 1, node_id)
find_in(children, i, node_id) ==
    IF i > Len(children) THEN None
    ELSE LET found == find(children[i], node_id) IN
         IF found # None THEN found ELSE find_in(children, i + 1, node_id)

RECURSIVE all_ids(_)
RECURSIVE all_ids_of(_, _)
all_ids(node) == <<node.node_id>> \o all_ids_of(node.children, 1)
all_ids_of(children, i) ==
    IF i > Len(children) THEN <<>>
    ELSE all_ids(children[i]) \o all_ids_of(children, i + 1)

RECURSIVE flatten(_)
RECURSIVE flatten_of(_, _)
flatten(node) == <<node>> \o flatten_of(node.children, 1)
flatten_of(children, i) ==
    IF i > Len(children) THEN <<>>
    ELSE flatten(children[i]) \o flatten_of(children, i + 1)

find_node(t, node_id) == find(t.root, node_id)

\* variant: the synthetic root is not excluded
all_node_ids_with_root(t) == all_ids(t.root)

all_node_ids(t) ==
    IF t.root.node_id = Str("0")
    THEN all_ids_of(t.root.children, 1)
    ELSE all_ids(t.root)

all_nodes(t) ==
    IF t.root.node_id = Str("0")
    THEN flatten_of(t.root.children, 1)
    ELSE flatten(t.root)

-----------------------------------------------------------------------------
(* parser.rs *)

parse_heading(line) ==
    IF line = <<>> \/ Head(line) # "#" THEN None
    ELSE LET depth == CountPrefix(line, "#")
             title == Trim(SubSeq(line, depth + 1, Len(line)))
         IN IF title = <<>> THEN None ELSE Some(<<depth, title>>)

\* current_body.join("\n").trim().to_string()
BodyText(body) == Trim(Join(body, Str("\n")))

\* variant: the first heading gives the title whatever its depth
TitleAfterAnyDepth(was_started, depth, title, old_title) ==
    IF ~was_started THEN title ELSE old_title

\* if !started && depth == 1 { doc_title = title.clone() }
TitleAfter(was_started, depth, title, old_title) ==
    IF ~was_started /\ depth = 1 THEN title ELSE old_title

Init ==
    /\ markdown \in Inputs
    /\ pc = "scan"
    /\ line_no = 0
    /\ blocks = <<>>
    /\ doc_title = DocId
    /\ current_depth = 0
    /\ current_title = <<>>
    /\ current_body = <<>>
    /\ started = FALSE
    /\ node_stack = <<>>
    /\ depth_counters = [i \in 0..(CounterLen - 1) |-> 0]
    /\ block_no = 0
    /\ created = <<>>
    /\ tree = None
    /\ res = None

\* One iteration of `for line in markdown.lines()`
ScanLine ==
    /\ pc = "scan"
    /\ line_no < Len(markdown)
    /\ LET line == markdown[line_no + 1]
           h == parse_heading(line)
       IN /\ line_no' = line_no + 1
          /\ IF h # None
             THEN /\ blocks' = IF started
                               THEN Append(blocks, <<current_depth, current_title,
                                                     BodyText(current_body)>>)
                               ELSE blocks
                  /\ doc_title' = TitleAfter(started, h[1][1], h[1][2], doc_title)
                  /\ current_depth' = h[1][1]
                  /\ current_title' = h[1][2]
                  /\ current_body' = <<>>
                  /\ started' = TRUE
             ELSE /\ current_body' = IF started THEN Append(current_body, line)
                                     ELSE current_body
                  /\ UNCHANGED <<blocks, doc_title, current_depth, current_title, started>>
    /\ UNCHANGED <<markdown, pc, node_stack, depth_counters, block_no, created, tree, res>>

\* The end of the scan (the last block is emitted) and the start of build_tree
ScanEnd ==
    /\ pc = "scan"
    /\ line_no = Len(markdown)
    /\ blocks' = IF started
                 THEN Append(blocks, <<current_depth, current_title, BodyText(current_body)>>)
                 ELSE blocks
    /\ node_stack' = <<Node_new(Str("0"), <<"r", "o", "o", "t">>, 0, <<>>)>>
    /\ depth_counters' = [i \in 0..(CounterLen - 1) |-> 0]
    /\ pc' = "build"
    /\ UNCHANGED <<markdown, line_no, doc_title, current_depth, current_title,
                   current_body, started, block_no, created, tree, res>>

-----------------------------------------------------------------------------
(* build_tree *)

\* variant: the deeper counters are not reset
BumpCountersNoReset(counters, depth) ==
    [i \in DOMAIN counters |-> IF i = depth THEN counters[i] + 1 ELSE counters[i]]

\* depth_counters[depth] += 1; for i in (depth + 1)..10 { depth_counters[i] = 0 }
BumpCounters(counters, depth) ==
    [i \in DOMAIN counters |->
        IF i = depth THEN counters[i] + 1
        ELSE IF i > depth THEN 0
        ELSE counters[i]]

\* variant: the id is the counter of the heading's own depth alone
MakeNodeIdLast(counters, depth) == to_string(counters[depth])

\* depth_counters[1..=depth].iter().map(to_string).collect().join(".")
MakeNodeId(counters, depth) ==
    Join([i \in 1..depth |-> to_string(counters[i])], Str("."))

\* variant: a heading of equal depth does not close the open one
ClosesStrict(top_depth, depth) == top_depth > depth

\* the test of the closing loop: top_depth >= depth
Closes(top_depth, depth) == top_depth >= depth

\* variant: the child is put in front of its siblings
PopAttachFront(stack) ==
    LET n == Len(stack)
        child == stack[n]
        parent == stack[n - 1]
    IN Append(SubSeq(stack, 1, n - 2),
              [parent EXCEPT !.children = <<child>> \o parent.children])

\* let child = node_stack.pop(); node_stack.last_mut().children.push(child)
PopAttach(stack) ==
    LET n == Len(stack)
        child == stack[n]
        parent == stack[n - 1]
    IN Append(SubSeq(stack, 1, n - 2),
              [parent EXCEPT !.children = Append(parent.children, child)])

\* while node_stack.len() > 1 { if top_depth >= depth { pop, attach } else { break } }
RECURSIVE CloseOpen(_, _)
CloseOpen(stack, depth) ==
    IF Len(stack) > 1 /\ Closes(stack[Len(stack)].depth, depth)
    THEN CloseOpen(PopAttach(stack), depth)
    ELSE stack

\* while node_stack.len() > 1 { pop, attach }
RECURSIVE CloseAll(_)
CloseAll(stack) ==
    IF Len(stack) > 1 THEN CloseAll(PopAttach(stack)) ELSE stack

\* variant: the placeholder is always the root
PromoteNever(final_root) == final_root

\* Promote to root if there's only one top-level section
Promote(final_root) ==
    IF final_root.node_id = Str("0") /\ Len(final_root.children) = 1
    THEN final_root.children[1]
    ELSE final_root

\* One iteration of `for (depth, title, body) in blocks`
BuildBlock ==
    /\ pc = "build"
    /\ block_no < Len(blocks)
    /\ LET depth == blocks[block_no + 1][1]
           title == blocks[block_no + 1][2]
           body == blocks[block_no + 1][3]
       IN /\ depth < CounterLen
          /\ LET counters == BumpCounters(depth_counters, depth)
                 node_id == MakeNodeId(counters, depth)
                 node == Node_new(node_id, title, depth, body)
             IN /\ depth_counters' = counters
                /\ node_stack' = Append(CloseOpen(node_stack, depth), node)
                /\ created' = Append(created, node_id)
    /\ block_no' = block_no + 1
    /\ UNCHANGED <<markdown, pc, line_no, blocks, doc_title, current_depth,
                   current_title, current_body, started, tree, res>>

\* depth_counters[depth] with depth >= 10: the index is out of bounds and the
\* thread panics; parse_markdown returns nothing
BuildPanic ==
    /\ pc = "build"
    /\ block_no < Len(blocks)
    /\ blocks[block_no + 1][1] >= CounterLen
    /\ pc' = "panic"
    /\ UNCHANGED <<markdown, line_no, blocks, doc_title, current_depth, current_title,
                   current_body, started, node_stack, depth_counters, block_no,
                   created, tree, res>>

\* The end of build_tree and the return of parse_markdown
BuildEnd ==
    /\ pc = "build"
    /\ block_no = Len(blocks)
    /\ LET final_root == CloseAll(node_stack)[1]
       IN tree' = Some(DocumentTree_new(DocId, doc_title, Promote(final_root)))
    /\ node_stack' = <<>>
    /\ pc' = "done"
    /\ UNCHANGED <<markdown, line_no, blocks, doc_title, current_depth, current_title,
                   current_body, started, depth_counters, block_no, created, res>>

-----------------------------------------------------------------------------
(* traversal.rs *)

\* variant: empty fragments are not left out
RECURSIVE collect_unfiltered(_)
RECURSIVE collect_unfiltered_parts(_, _)
collect_unfiltered(node) ==
    Join(<<node.text>> \o collect_unfiltered_parts(node.children, 1), <<"\n", "\n">>)
collect_unfiltered_parts(children, i) ==
    IF i > Len(children) THEN <<>>
    ELSE LET child == children[i]
             heading == Repeat(<<"#">>, child.depth)
         IN <<heading \o <<" ">> \o child.title, collect_unfiltered(child)>>
            \o collect_unfiltered_parts(children, i + 1)

RECURSIVE collect_subtree_text(_)
RECURSIVE collect_parts(_, _)
collect_subtree_text(node) ==
    Join(NonEmpty(<<node.text>> \o collect_parts(node.children, 1)), <<"\n", "\n">>)
collect_parts(children, i) ==
    IF i > Len(children) THEN <<>>
    ELSE LET child == children[i]
             heading == Repeat(<<"#">>, child.depth)
         IN <<heading \o <<" ">> \o child.title, collect_subtree_text(child)>>
            \o collect_parts(children, i + 1)

\* the body of `for i in 1..=parts.len()`
RECURSIVE breadcrumb_from(_, _, _)
breadcrumb_from(t, parts, i) ==
    IF i > Len(parts) THEN <<>>
    ELSE LET prefix == Join(SubSeq(parts, 1, i), Str("."))
             node == find_node(t, prefix)
         IN (IF node # None THEN <<node[1].title>> ELSE <<>>)
            \o breadcrumb_from(t, parts, i + 1)

\* variant: the prefixes stop one short of the whole id
build_breadcrumb_short(t, node_id) ==
    LET parts == Split(node_id, ".")
    IN breadcrumb_from(t, SubSeq(parts, 1, Len(parts) - 1), 1)

build_breadcrumb(t, node_id) == breadcrumb_from(t, Split(node_id, "."), 1)

get_node(t, node_id) ==
    LET breadcrumb == build_breadcrumb(t, node_id)
        node == find_node(t, node_id)
    IN IF node = None THEN None
       ELSE Some([node_id |-> node[1].node_id, title |-> node[1].title,
                  text |-> node[1].text, summary |-> node[1].summary,
                  depth |-> node[1].depth, breadcrumb |-> breadcrumb])

get_node_with_children(t, node_id) ==
    LET breadcrumb == build_breadcrumb(t, node_id)
        node == find_node(t, node_id)
    IN IF node = None THEN None
       ELSE Some([node_id |-> node[1].node_id, title |-> node[1].title,
                  text |-> collect_subtree_text(node[1]), summary |-> node[1].summary,
                  depth |-> node[1].depth, breadcrumb |-> breadcrumb])

get_children(t, node_id) ==
    LET node == find_node(t, node_id)
    IN IF node = None THEN <<>>
       ELSE [i \in 1..Len(node[1].children) |->
                <<node[1].children[i].node_id, node[1].children[i].title>>]

-----------------------------------------------------------------------------
(* The queries a caller makes on the returned tree *)

Range(seq) == {seq[i] : i \in 1..Len(seq)}

\* every id in the tree (the root's included) and one id no tree has
QueryIds == Range(all_ids(tree[1].root)) \cup {<<"9", ".", "9">>}

Query(op, id, out) ==
    /\ res' = Some([op |-> op, node_id |-> id, out |-> out])
    /\ UNCHANGED <<markdown, pc, line_no, blocks, doc_title, current_depth,
                   current_title, current_body, started, node_stack, depth_counters,
                   block_no, created, tree>>

FindNode ==
    /\ pc = "done"
    /\ \E id \in QueryIds : Query("find_node", id, find_node(tree[1], id))

AllNodeIds ==
    /\ pc = "done"
    /\ Query("all_node_ids", <<>>, all_node_ids(tree[1]))

GetNode ==
    /\ pc = "done"
    /\ \E id \in QueryIds : Query("get_node", id, get_node(tree[1], id))

GetNodeWithChildren ==
    /\ pc = "done"
    /\ \E id \in QueryIds :
          Query("get_node_with_children", id, get_node_with_children(tree[1], id))

GetChildren ==
    /\ pc = "done"
    /\ \E id \in QueryIds : Query("get_children", id, get_children(tree[1], id))

Next ==
    \/ ScanLine \/ ScanEnd
    \/ BuildBlock \/ BuildPanic \/ BuildEnd
    \/ FindNode \/ AllNodeIds \/ GetNode \/ GetNodeWithChildren \/ GetChildren

Spec == Init /\ [][Next]_vars

-----------------------------------------------------------------------------
(* The input as the claims see it: its heading lines, in order *)

RECURSIVE Headings(_)
Headings(lines) ==
    IF lines = <<>> THEN <<>>
    ELSE LET h == parse_heading(Head(lines))
         IN (IF h # None THEN <<[depth |-> h[1][1], title |-> h[1][2]]>> ELSE <<>>)
            \o Headings(Tail(lines))

H == Headings(markdown)

Done == pc = "done"
T == tree[1]

Asked(op) == res # None /\ res[1].op = op

\* the i-th heading has no earlier heading of smaller depth
TopLevel(h, i) == \A k \in 1..(i - 1) : h[k].depth >= h[i].depth
TopLevelIdx(h) == {i \in 1..Len(h) : TopLevel(h, i)}

\* the nearest earlier heading of strictly smaller depth, 0 when there is none
NearestShallower(h, i) ==
    LET earlier == {k \in 1..(i - 1) : h[k].depth < h[i].depth}
    IN IF earlier = {} THEN 0 ELSE CHOOSE k \in earlier : \A m \in earlier : m <= k

\* the number of depth-j headings among the first i since the last one shallower than j
CountSince(h, j, i) ==
    LET shallower == {k \in 1..i : h[k].depth < j}
        last == IF shallower = {} THEN 0
                ELSE CHOOSE k \in shallower : \A m \in shallower : m <= k
    IN Cardinality({k \in (last + 1)..i : h[k].depth = j})

ExpectedId(h, i) ==
    Join([j \in 1..h[i].depth |-> to_string(CountSince(h, j, i))], Str("."))

IsDistinct(seq) == \A i, j \in 1..Len(seq) : i # j => seq[i] # seq[j]

Increasing(seq) == \A i \in 1..(Len(seq) - 1) : seq[i] < seq[i + 1]

\* the position of an id in the order of creation
CreatedAt(id) == CHOOSE i \in 1..Len(created) : created[i] = id

\* the id of the node that has the node `id` among its children (None for a root)
RECURSIVE ParentId(_, _)
RECURSIVE ParentIdIn(_, _, _)
ParentId(node, id) ==
    IF \E i \in 1..Len(node.children) : node.children[i].node_id = id
    THEN Some(node.node_id)
    ELSE ParentIdIn(node.children, 1, id)
ParentIdIn(children, i, id) ==
    IF i > Len(children) THEN None
    ELSE LET found == ParentId(children[i], id)
         IN IF found # None THEN found ELSE ParentIdIn(children, i + 1, id)

Root0 == Str("0")

-----------------------------------------------------------------------------
(* C1: parse_markdown never ends in an abort, whatever the number of leading
   markers on a heading line.  The code indexes depth_counters[depth], a
   vector of 10, so a heading of 10 markers aborts it. *)
C1_NeverAborts == pc # "panic"

(* C2, as stated: with several top-level headings, or a first heading deeper
   than 1, the root is "0" and the title is the doc_id. *)
C2_AsStated ==
    LET h == H IN
    Done /\ Len(h) > 0 /\ (Cardinality(TopLevelIdx(h)) >= 2 \/ h[1].depth > 1)
        => T.root.node_id = Root0 /\ T.title = DocId

(* C2, amended: with two or more top-level headings the root is "0"; with a
   first heading deeper than 1 the title is the doc_id. *)
C2_RootAndTitle ==
    LET h == H IN
    Done /\ Len(h) > 0
        => /\ Cardinality(TopLevelIdx(h)) >= 2 => T.root.node_id = Root0
           /\ h[1].depth > 1 => T.title = DocId

C2_Witness ==
    LET h == H IN
    /\ Done /\ Len(h) >= 2
    /\ Cardinality(TopLevelIdx(h)) >= 2 /\ h[1].depth > 1
    /\ T.root.node_id = Root0 /\ T.title = DocId

\* the real (non-aggregator) nodes of the tree with this id
RealNodes(id) == {n \in Range(all_nodes(T)) : n.node_id = id}

Components(id) == Split(id, ".")
NoSkippedLevel(id) == \A i \in 1..Len(Components(id)) : Components(id)[i] # Str("0")

(* C3, as stated: for every real node, get_node gives a breadcrumb as long as
   the node is deep, ending in the node's title. *)
C3_AsStated ==
    Asked("get_node") =>
        \A n \in RealNodes(res[1].node_id) :
            /\ res[1].out # None
            /\ Len(res[1].out[1].breadcrumb) = n.depth
            /\ res[1].out[1].breadcrumb[n.depth] = n.title

(* C3, amended: the breadcrumb ends in the node's title and is at most as
   long as the node is deep; it is exactly that long when no component of
   the node's id is 0, that is when no level is skipped above the node. *)
C3_Breadcrumb ==
    Asked("get_node") =>
        \A n \in RealNodes(res[1].node_id) :
            /\ res[1].out # None
            /\ LET b == res[1].out[1].breadcrumb
               IN /\ Len(b) >= 1 /\ Len(b) <= n.depth
                  /\ b[Len(b)] = n.title
                  /\ NoSkippedLevel(n.node_id) => Len(b) = n.depth

C3_Witness ==
    /\ Asked("get_node")
    /\ res[1].node_id = <<"1", ".", "0", ".", "1">>
    /\ res[1].out # None
    /\ Len(res[1].out[1].breadcrumb) = 2
    /\ RealNodes(res[1].node_id) # {}

(* C4: all_node_ids gives one id per heading line, in the order of the
   headings, and never the synthetic "0". *)
C4_AllNodeIds ==
    LET h == H IN
    Asked("all_node_ids") =>
        /\ Len(res[1].out) = Len(h)
        /\ res[1].out = [i \in 1..Len(h) |-> ExpectedId(h, i)]
        /\ res[1].out = created
        /\ \A i \in 1..Len(res[1].out) : res[1].out[i] # Root0

C4_Witness ==
    /\ Asked("all_node_ids")
    /\ T.root.node_id = Root0
    /\ Len(res[1].out) = 3
    /\ \E i \in 1..Len(T.root.children) : T.root.children[i].children # <<>>

(* C5: a first heading of depth 1 with every other heading deeper is the
   root itself, id "1", gives the title, and has all other sections below.
   As stated, for every such input: parse_markdown returns, and returns such
   a tree. *)
C5_AsStated ==
    LET h == H IN
    /\ pc \in {"done", "panic"}
    /\ Len(h) > 0 /\ h[1].depth = 1 /\ (\A i \in 2..Len(h) : h[i].depth > 1)
    => /\ Done
       /\ T.title = h[1].title
       /\ T.root.node_id = Str("1")
       /\ T.root.title = h[1].title
       /\ all_ids(T.root) = created
       /\ Len(all_ids(T.root)) = Len(h)

(* C5, on the inputs parse_markdown returns from (every heading of at most 9
   markers): the tree is as C5 says. *)
C5_SingleTopLevel ==
    LET h == H IN
    Done /\ Len(h) > 0 /\ h[1].depth = 1 /\ (\A i \in 2..Len(h) : h[i].depth > 1)
        => /\ T.title = h[1].title
           /\ T.root.node_id = Str("1")
           /\ T.root.title = h[1].title
           /\ T.root.depth = 1
           /\ all_ids(T.root) = created
           /\ Len(all_ids(T.root)) = Len(h)

C5_Witness ==
    LET h == H IN
    /\ Done /\ Len(h) = 3 /\ h[1].depth = 1 /\ (\A i \in 2..Len(h) : h[i].depth > 1)
    /\ T.root.node_id = Str("1") /\ T.title = <<"b">>

\* the aggregator root: id "0", the given title, no text, depth 0, and the
\* top-level sections as its children, in order
AggregatorRoot(h, title) ==
    /\ T.root.node_id = Root0
    /\ T.root.title = title
    /\ T.root.text = <<>>
    /\ T.root.depth = 0
    /\ Len(T.root.children) = Cardinality(TopLevelIdx(h))
    /\ \A i \in 1..Len(T.root.children) :
          /\ CreatedAt(T.root.children[i].node_id) \in TopLevelIdx(h)
          /\ T.root.children[i].title = h[CreatedAt(T.root.children[i].node_id)].title
    /\ Increasing([i \in 1..Len(T.root.children) |->
                      CreatedAt(T.root.children[i].node_id)])

(* C6, as stated: when the placeholder ends with zero or with two or more
   children, the root has id "0", an empty title, an empty text and the
   top-level sections as children, in order. *)
C6_AsStated ==
    LET h == H IN
    Done /\ Cardinality(TopLevelIdx(h)) # 1 => AggregatorRoot(h, <<>>)

(* C6, amended: when the placeholder ends with zero or with two or more
   children, the root has id "0", the title "root", an empty text and the
   top-level sections as children, in order. *)
C6_Aggregator ==
    LET h == H IN
    Done =>
        /\ (T.root.node_id = Root0) = (Cardinality(TopLevelIdx(h)) # 1)
        /\ Cardinality(TopLevelIdx(h)) # 1 => AggregatorRoot(h, <<"r", "o", "o", "t">>)

C6_Witness ==
    LET h == H IN
    /\ Done /\ T.root.node_id = Root0
    /\ Len(T.root.children) = 2 /\ Len(h) = 3

\* the fragments of a subtree, flat, in preorder
RECURSIVE Fragments(_, _)
Fragments(nodes, i) ==
    IF i > Len(nodes) THEN <<>>
    ELSE <<Repeat(<<"#">>, nodes[i].depth) \o <<" ">> \o nodes[i].title, nodes[i].text>>
         \o Fragments(nodes, i + 1)

FlatText(n) ==
    Join(NonEmpty(<<n.text>> \o Fragments(flatten(n), 2)), <<"\n", "\n">>)

(* C7: the text of get_node_with_children is the blank-line join of the
   non-empty fragments of the subtree in preorder; the other fields are
   those of get_node. *)
C7_SubtreeText ==
    Asked("get_node_with_children") =>
        \A n \in Range(flatten(T.root)) :
            n.node_id = res[1].node_id =>
                /\ res[1].out # None
                /\ res[1].out[1].text = FlatText(n)
                /\ get_node(T, n.node_id) # None
                /\ [res[1].out[1] EXCEPT !.text = n.text] = get_node(T, n.node_id)[1]

C7_Witness ==
    /\ Asked("get_node_with_children")
    /\ res[1].out # None
    /\ \E n \in Range(flatten(T.root)) :
          /\ n.node_id = res[1].node_id
          /\ Len(flatten(n)) = 3
          /\ n.children # <<>> /\ n.children[1].children # <<>>
          /\ n.children[1].children[1].text = <<>>
          /\ res[1].out[1].text # <<>>

(* C8: no two nodes share an id, no section has the id "0", and find_node on
   a node's id gives that node. *)
C8_UniqueIds ==
    /\ IsDistinct(created)
    /\ \A i \in 1..Len(created) : created[i] # Root0
    /\ Done => IsDistinct(all_ids(T.root)) /\ all_node_ids(T) = created
    /\ Asked("find_node") =>
          \A n \in Range(flatten(T.root)) :
              n.node_id = res[1].node_id => res[1].out = Some(n)

C8_Witness ==
    LET h == H IN
    /\ Asked("find_node")
    /\ res[1].out # None
    /\ res[1].out[1].depth = 3
    /\ Len(created) = 3
    /\ h[1].depth = 2

(* C9: the id of a heading of depth d is the dot-join of d counters: the
   last is the count of depth-d headings since the last shallower heading,
   and a skipped level gives the component 0. *)
C9_NodeIds ==
    LET h == H IN
    pc \in {"build", "done"} =>
        \A i \in 1..Len(created) :
            /\ created[i] = ExpectedId(h, i)
            /\ Len(Components(created[i])) = h[i].depth
            /\ Components(created[i])[h[i].depth] = to_string(CountSince(h, h[i].depth, i))
            /\ \A j \in 1..(h[i].depth - 1) :
                  (~\E k \in 1..i : h[k].depth = j) => Components(created[i])[j] = Str("0")
            /\ (pc = "build" /\ i = Len(created))
                  => node_stack[Len(node_stack)].node_id = created[i]

C9_Witness ==
    LET h == H IN
    /\ pc = "build"
    /\ Len(created) = 2
    /\ h[1].depth = 1 /\ h[2].depth = 3
    /\ created[2] = <<"1", ".", "0", ".", "1">>

(* C10: the stack of open nodes has the placeholder at the bottom and
   strictly increasing depths; in the returned tree a child is deeper than
   its parent, children are in source order, and the parent of a heading is
   the nearest earlier heading of smaller depth. *)
C10_Nesting ==
    LET h == H IN
    /\ pc = "build" =>
          /\ Len(node_stack) >= 1
          /\ node_stack[1].node_id = Root0 /\ node_stack[1].depth = 0
          /\ Increasing([i \in 1..Len(node_stack) |-> node_stack[i].depth])
    /\ Done =>
          /\ \A n \in Range(flatten(T.root)) :
                /\ \A i \in 1..Len(n.children) : n.children[i].depth > n.depth
                /\ Increasing([i \in 1..Len(n.children) |->
                                  CreatedAt(n.children[i].node_id)])
          /\ \A i \in 1..Len(h) :
                LET k == NearestShallower(h, i)
                    parent == ParentId(T.root, created[i])
                IN IF k # 0 THEN parent = Some(created[k])
                   ELSE IF T.root.node_id = Root0 THEN parent = Some(Root0)
                   ELSE parent = None /\ T.root.node_id = created[i]
          /\ \A i \in 1..(Len(h) - 1) :
                h[i].depth = h[i + 1].depth /\ T.root.node_id # created[i]
                    => ParentId(T.root, created[i]) = ParentId(T.root, created[i + 1])

C10_Witness ==
    LET h == H IN
    /\ Done /\ Len(h) = 3
    /\ h[1].depth = 1 /\ h[2].depth = 3 /\ h[3].depth = 3
    /\ ParentId(T.root, created[2]) = Some(created[1])
    /\ ParentId(T.root, created[3]) = Some(created[1])
====
